---- MODULE Spec2Model ----
(***************************************************************************)
(* Model of src/graph.py: class Graph (a simple undirected graph kept as   *)
(* a neighbourhood matrix, built from and read as three representations)   *)
(* and class GraphDrawer (circular layout handed to a plotting library).   *)
(*                                                                         *)
(* Python values are modelled as follows.  A list is a function on         *)
(* 0..len-1 (Python indexing); a dict is a function on its key set; a      *)
(* value that may be None is a record [kind, val] whose kind says what     *)
(* val holds.  An operation's outcome is a record                          *)
(*   [matrix |-> self.matrix afterwards, exc |-> exception class or "",    *)
(*    msg |-> the exception's message, val |-> the value returned].        *)
(***************************************************************************)
EXTENDS Integers, Sequences, FiniteSets, TLC

\* ------------------------------------------------------------- bounds
\* Largest node count of the valid graphs handed to the accessors.
MaxN == 3
\* Largest size of an arbitrary integer matrix handed to from_neighbourhood_matrix.
MaxM == 2
\* Largest row and column count of an incidence matrix input.
MaxIncN == 3
MaxIncE == 2
\* Largest key count and neighbour-list length of an adjacency-list input.
MaxAdjN == 2
MaxDeg == 1
\* Most figures the plotting library is let to hold open.
MaxFigs == 2

\* Entry values of matrix inputs: one per case validate tells apart
\* (negative, 0, 1, greater than 1).
Vals == {-1, 0, 1, 2}
\* Entry values of incidence inputs: 0, 1 and a value that is neither.
IncVals == {0, 1, 2}
\* Node labels of adjacency-list inputs: below 1, inside 1..n, above n.
AdjLabels == (0 - 1) .. (MaxAdjN + 1)

\* ------------------------------------------------------ Python values
None == [kind |-> "None", val |-> <<>>]
PyList(rows) == [kind |-> "list", val |-> rows]
PyDict(map) == [kind |-> "dict", val |-> map]

Idx(n) == 0 .. (n - 1)
len(f) == Cardinality(DOMAIN f)
\* list[k] with Python's negative indices; IndexError outside -n..n-1.
InRange(k, n) == (0 - n) <= k /\ k < n
PyIndex(k, n) == IF k < 0 THEN k + n ELSE k

NoExc == ""
Outcome(m, e, s, v) == [matrix |-> m, exc |-> e, msg |-> s, val |-> v]

Digit(d) == <<"0", "1", "2", "3", "4", "5", "6", "7", "8", "9">>[d + 1]
RECURSIVE str(_)
str(k) == IF k < 10 THEN Digit(k) ELSE str(k \div 10) \o Digit(k % 10)

BadGraphInput(message) == "Graph could not be create due to bad input: " \o message

\* ------------------------------------------------------------ Graph
transpose(rows) ==
    LET n == len(rows)
        w == IF n = 0 THEN 0 ELSE len(rows[0])
    IN  [j \in Idx(w) |-> [i \in Idx(n) |-> rows[i][j]]]

\* validate with the slip of testing for multiple edges before loops.
validate_multi_first(rows) ==
    LET n == len(rows) IN
    IF \E i \in Idx(n) : \E j \in DOMAIN rows[i] : rows[i][j] > 1
    THEN Outcome(None, "BadGraphInput", BadGraphInput("can't have multiple edges"), None)
    ELSE IF \E i \in Idx(n) : rows[i][i] # 0
    THEN Outcome(None, "BadGraphInput", BadGraphInput("can't have loops"), None)
    ELSE IF transpose(rows) # rows
    THEN Outcome(None, "BadGraphInput", BadGraphInput("incorrect graph"), None)
    ELSE Outcome(PyList(rows), NoExc, "", None)

\* validate on a stored list of rows (self.matrix is not None).
validate(rows) ==
    LET n == len(rows) IN
    IF \E i \in Idx(n) : rows[i][i] # 0
    THEN Outcome(None, "BadGraphInput", BadGraphInput("can't have loops"), None)
    ELSE IF \E i \in Idx(n) : \E j \in DOMAIN rows[i] : rows[i][j] > 1
    THEN Outcome(None, "BadGraphInput", BadGraphInput("can't have multiple edges"), None)
    ELSE IF transpose(rows) # rows
    THEN Outcome(None, "BadGraphInput", BadGraphInput("incorrect graph"), None)
    ELSE Outcome(PyList(rows), NoExc, "", None)

\* validate with the slip of discarding the matrix on every path.
validate_self_discards(self_matrix) ==
    IF self_matrix = None
    THEN Outcome(self_matrix, "TypeError", "", None)
    ELSE [validate(self_matrix.val) EXCEPT !.matrix = None]

\* validate called on the object as it stands: len(None) raises TypeError.
validate_self(self_matrix) ==
    IF self_matrix = None
    THEN Outcome(self_matrix, "TypeError", "", None)
    ELSE validate(self_matrix.val)

from_neighbourhood_matrix(self_matrix, matrix) == validate(matrix)

ZeroMatrix(n, w) == [i \in Idx(n) |-> [j \in Idx(w) |-> 0]]

\* The (node, position) pairs the two loops of from_adjacency_list visit.
AdjPairs(adj_list) ==
    UNION {{<<node, p>> : p \in 1 .. Len(adj_list[node])} : node \in DOMAIN adj_list}

RECURSIVE AddPairs(_, _, _)
AddPairs(matrix, adj_list, pairs) ==
    IF pairs = {} THEN matrix
    ELSE LET pr == CHOOSE x \in pairs : TRUE
             n == len(matrix)
             r == PyIndex(pr[1] - 1, n)
             c == PyIndex(adj_list[pr[1]][pr[2]] - 1, n)
         IN  AddPairs([matrix EXCEPT ![r][c] = @ + 1], adj_list, pairs \ {pr})

from_adjacency_list(self_matrix, adj_list) ==
    LET node_count == len(adj_list)
        pairs == AdjPairs(adj_list)
    IN  IF \E pr \in pairs : \/ ~InRange(pr[1] - 1, node_count)
                             \/ ~InRange(adj_list[pr[1]][pr[2]] - 1, node_count)
        THEN Outcome(self_matrix, "IndexError", "", None)
        ELSE validate(AddPairs(ZeroMatrix(node_count, node_count), adj_list, pairs))

\* `if node == 1`, with the slip of testing the entry for truth instead.
is_endpoint_truthy(node) == node # 0
is_endpoint(node) == node = 1

\* The row indices i, ascending, at which column `edge` holds a 1.
RECURSIVE neigbours(_, _, _)
neigbours(inc_matrix, edge, i) ==
    IF i = len(inc_matrix) THEN <<>>
    ELSE (IF is_endpoint(inc_matrix[i][edge]) THEN <<i>> ELSE <<>>)
             \o neigbours(inc_matrix, edge, i + 1)

RECURSIVE AddEdges(_, _, _, _)
AddEdges(self_matrix, inc_matrix, edge, matrix) ==
    LET edge_count == IF len(inc_matrix) = 0 THEN 0 ELSE len(inc_matrix[0])
        nb == neigbours(inc_matrix, edge, 0)
    IN  IF edge = edge_count THEN validate(matrix)
        ELSE IF Len(nb) # 2
        THEN Outcome(self_matrix, "BadGraphInput",
                     BadGraphInput("invalid edge, " \o str(Len(nb)) \o " nodes"), None)
        ELSE AddEdges(self_matrix, inc_matrix, edge + 1,
                      [matrix EXCEPT ![nb[1]][nb[2]] = @ + 1, ![nb[2]][nb[1]] = @ + 1])

from_incidence_matrix(self_matrix, inc_matrix) ==
    LET node_count == len(inc_matrix)
    IN  AddEdges(self_matrix, inc_matrix, 0, ZeroMatrix(node_count, node_count))

as_neighbourhood_matrix(self_matrix) == Outcome(self_matrix, NoExc, "", self_matrix)

\* The label of the node stored at index j: `j+1`, with the slip of leaving it 0-based.
label_zero_based(j) == j
label(j) == j + 1

as_adjacency_list(self_matrix) ==
    IF self_matrix = None THEN Outcome(self_matrix, "TypeError", "", None)
    ELSE LET rows == self_matrix.val
             n == len(rows)
             row_list(i) == LET js == SelectSeq([x \in 1 .. len(rows[i]) |-> x - 1],
                                                LAMBDA j : rows[i][j] = 1)
                            IN  [p \in 1 .. Len(js) |-> label(js[p])]
         IN  Outcome(self_matrix, NoExc, "", PyDict([k \in 1 .. n |-> row_list(k - 1)]))

RECURSIVE SumTo(_, _)
SumTo(row, k) == IF k = 0 THEN 0 ELSE row[k - 1] + SumTo(row, k - 1)
RECURSIVE SumRows(_, _)
SumRows(rows, k) ==
    IF k = 0 THEN 0 ELSE SumTo(rows[k - 1], len(rows[k - 1])) + SumRows(rows, k - 1)

\* `sum(sum(row) for row in self.matrix)//2`, with the slip of not halving.
edge_count_unhalved(rows) == SumRows(rows, len(rows))
edge_count_of(rows) == SumRows(rows, len(rows)) \div 2

\* Where the inner loop starts, `range(i+1, ...)`, with the slip of scanning whole rows.
first_j_whole_row(i) == 0
first_j(i) == i + 1

\* The double loop of as_incidence_matrix from position (i, j) on; `matrix` is the
\* result so far and current_edge the next unused column.  None stands for IndexError.
RECURSIVE Scan(_, _, _, _, _)
Scan(rows, i, j, current_edge, matrix) ==
    IF i >= len(rows) - 1 THEN PyList(matrix)
    ELSE IF j >= len(rows[0]) THEN Scan(rows, i + 1, first_j(i + 1), current_edge, matrix)
    ELSE IF rows[i][j] = 1
    THEN IF current_edge >= len(matrix[i]) THEN None
         ELSE Scan(rows, i, j + 1, current_edge + 1,
                   [matrix EXCEPT ![i][current_edge] = 1, ![j][current_edge] = 1])
    ELSE Scan(rows, i, j + 1, current_edge, matrix)

as_incidence_matrix(self_matrix) ==
    IF self_matrix = None THEN Outcome(self_matrix, "TypeError", "", None)
    ELSE LET rows == self_matrix.val
             edge_count == edge_count_of(rows)
             node_count == len(rows)
             res == Scan(rows, 0, first_j(0), 0, ZeroMatrix(node_count, edge_count))
         IN  IF res = None THEN Outcome(self_matrix, "IndexError", "", None)
             ELSE Outcome(self_matrix, NoExc, "", res)

\* ------------------------------------------------------------ inputs
SquareMatrices(n, V) == [Idx(n) -> [Idx(n) -> V]]

MatrixInputs == UNION {SquareMatrices(n, Vals) : n \in 0 .. MaxM}
\* The 0/1 matrices of up to MaxN nodes that validate accepts.
GraphInputs ==
    UNION {{m \in SquareMatrices(n, {0, 1}) : validate(m).exc = NoExc} : n \in 0 .. MaxN}
IncidenceInputs ==
    UNION {[Idx(n) -> [Idx(e) -> IncVals]] : n \in 0 .. MaxIncN, e \in 0 .. MaxIncE}
NeighbourLists == UNION {[1 .. d -> AdjLabels] : d \in 0 .. MaxDeg}
AdjacencyInputs ==
    UNION {[K -> NeighbourLists] : K \in {S \in SUBSET AdjLabels : Cardinality(S) <= MaxAdjN}}

\* ------------------------------------------------------------- state
VARIABLES
    matrix,   \* Graph.matrix: None or a list of rows
    last,     \* the last Graph operation and how it ended: [op, exc, msg]
    seen,     \* per read operation, its outcome when last called on the present self.matrix
    arg,      \* the input the caller holds
    graph, r, xy, title,   \* GraphDrawer's fields
    files,    \* the image files written: filename -> what was drawn
    shown,    \* what the interactive display last showed
    figs,     \* figures the plotting library holds open
    dlast,    \* the last GraphDrawer operation and how it ended
    parsed    \* whether parse has been called on the drawer

gvars == <<matrix, last, seen, arg>>
dvars == <<graph, r, xy, title, files, shown, figs, dlast, parsed>>
vars == <<matrix, last, seen, arg, graph, r, xy, title, files, shown, figs, dlast, parsed>>

ReadOps == {"validate", "as_neighbourhood_matrix", "as_adjacency_list", "as_incidence_matrix"}
NotCalled == [exc |-> "not called", msg |-> "", val |-> None]
NoneSeen == [o \in ReadOps |-> NotCalled]
Seen(out) == [exc |-> out.exc, msg |-> out.msg, val |-> out.val]

\* A constructor ran: self.matrix and the outcome are set; nothing has been read from it yet.
Constructed(op, out) ==
    /\ matrix' = out.matrix
    /\ last' = [op |-> op, exc |-> out.exc, msg |-> out.msg]
    /\ seen' = NoneSeen
    /\ UNCHANGED arg
    /\ UNCHANGED dvars

\* A read operation ran.
Read(op, out) ==
    /\ matrix' = out.matrix
    /\ last' = [op |-> op, exc |-> out.exc, msg |-> out.msg]
    /\ seen' = [seen EXCEPT ![op] = Seen(out)]
    /\ UNCHANGED arg
    /\ UNCHANGED dvars

FromNeighbourhoodMatrix(m) ==
    Constructed("from_neighbourhood_matrix", from_neighbourhood_matrix(matrix, m))
FromAdjacencyList(a) ==
    Constructed("from_adjacency_list", from_adjacency_list(matrix, a))
FromIncidenceMatrix(im) ==
    Constructed("from_incidence_matrix", from_incidence_matrix(matrix, im))
Validate == Read("validate", validate_self(matrix))
AsNeighbourhoodMatrix == Read("as_neighbourhood_matrix", as_neighbourhood_matrix(matrix))
AsAdjacencyList == Read("as_adjacency_list", as_adjacency_list(matrix))
AsIncidenceMatrix == Read("as_incidence_matrix", as_incidence_matrix(matrix))

NoOp == [op |-> "init", exc |-> NoExc, msg |-> ""]
DrawerInit ==
    /\ graph = None
    /\ r = 1
    /\ xy = <<0, 0>>
    /\ title = ""
    /\ files = <<>>
    /\ shown = None
    /\ figs = 0
    /\ dlast = NoOp
    /\ parsed = FALSE

GraphInit ==
    /\ matrix = None
    /\ last = NoOp
    /\ seen = NoneSeen

\* --- a Graph through any sequence of its operations
Init ==
    /\ GraphInit
    /\ arg = None
    /\ DrawerInit

Next ==
    \/ \E m \in MatrixInputs : FromNeighbourhoodMatrix(m)
    \/ \E a \in AdjacencyInputs : FromAdjacencyList(a)
    \/ \E im \in IncidenceInputs : FromIncidenceMatrix(im)
    \/ Validate
    \/ AsNeighbourhoodMatrix
    \/ AsAdjacencyList
    \/ AsIncidenceMatrix

Spec == Init /\ [][Next]_vars


\* --- from_neighbourhood_matrix on the integer matrix the caller holds
InitValidate ==
    /\ GraphInit
    /\ arg \in {PyList(m) : m \in MatrixInputs}
    /\ DrawerInit

NextValidate == FromNeighbourhoodMatrix(arg.val)

SpecValidate == InitValidate /\ [][NextValidate]_vars

\* --- from_incidence_matrix on the incidence matrix the caller holds
InitIncidence ==
    /\ GraphInit
    /\ arg \in {PyList(im) : im \in IncidenceInputs}
    /\ DrawerInit

NextIncidence == FromIncidenceMatrix(arg.val)

SpecIncidence == InitIncidence /\ [][NextIncidence]_vars

\* --- from_adjacency_list on the mapping the caller holds
InitAdjacency ==
    /\ GraphInit
    /\ arg \in {PyDict(a) : a \in AdjacencyInputs}
    /\ DrawerInit

NextAdjacency == FromAdjacencyList(arg.val)

SpecAdjacency == InitAdjacency /\ [][NextAdjacency]_vars

\* --- a Graph built from a simple graph, read, and rebuilt from what it returned
Returned(op) == seen[op].exc = NoExc /\ seen[op].val # None

InitAccess ==
    /\ GraphInit
    /\ arg \in {PyList(m) : m \in GraphInputs}
    /\ DrawerInit

NextAccess ==
    \/ FromNeighbourhoodMatrix(arg.val)
    \/ Returned("as_neighbourhood_matrix")
        /\ FromNeighbourhoodMatrix(seen["as_neighbourhood_matrix"].val.val)
    \/ Returned("as_adjacency_list")
        /\ FromAdjacencyList(seen["as_adjacency_list"].val.val)
    \/ Returned("as_incidence_matrix")
        /\ FromIncidenceMatrix(seen["as_incidence_matrix"].val.val)
    \/ Validate
    \/ AsNeighbourhoodMatrix
    \/ AsAdjacencyList
    \/ AsIncidenceMatrix

SpecAccess == InitAccess /\ [][NextAccess]_vars

\* ------------------------------------------------------- GraphDrawer
Titles == {"", "G"}
Filenames == {"a.png", "b.png"}

\* The networkx graph parse builds from an adjacency list: add_node for a node
\* without neighbours, add_edge (which adds both ends) for every listed neighbour.
nx_Graph(adj_list) ==
    [kind |-> "Graph",
     val |-> [nodes |-> DOMAIN adj_list
                          \cup UNION {{adj_list[node][p] : p \in 1 .. Len(adj_list[node])}
                                        : node \in DOMAIN adj_list},
              edges |-> UNION {{{node, adj_list[node][p]} : p \in 1 .. Len(adj_list[node])}
                                 : node \in DOMAIN adj_list}]]

\* __make_pos: the node at index i of the n sorted labels is put at angle i*(2*pi/n),
\* written <<i, n>>, on the circle of centre xy and radius r.
make_pos(g, centre, radius) ==
    [node \in g.nodes |->
        [centre |-> centre, radius |-> radius,
         angle |-> <<Cardinality({m \in g.nodes : m < node}), Cardinality(g.nodes)>>]]

Drawn(exc, msg, opened, picture) ==
    [exc |-> exc, msg |-> msg, opened |-> opened, picture |-> picture]

\* __draw without its test for a missing graph: the figure is opened before
\* self.graph.nodes() fails on None.
draw_unchecked(g, centre, radius, t) ==
    IF g = None THEN Drawn("AttributeError", "", 1, None)
    ELSE IF g.val.nodes = {} THEN Drawn("ZeroDivisionError", "", 1, None)
    ELSE Drawn(NoExc, "", 1,
               [kind |-> "figure",
                val |-> [circle |-> [centre |-> centre, radius |-> radius],
                         pos |-> make_pos(g.val, centre, radius),
                         edges |-> g.val.edges, title |-> t]])

\* __draw: what it raises, how many figures it opened, and the figure drawn.
draw(g, centre, radius, t) ==
    IF g = None THEN Drawn("TypeError", "Graph to draw is None", 0, None)
    ELSE IF g.val.nodes = {} THEN Drawn("ZeroDivisionError", "", 1, None)
    ELSE Drawn(NoExc, "", 1,
               [kind |-> "figure",
                val |-> [circle |-> [centre |-> centre, radius |-> radius],
                         pos |-> make_pos(g.val, centre, radius),
                         edges |-> g.val.edges, title |-> t]])

DrawerDid(op, exc, msg) == dlast' = [op |-> op, exc |-> exc, msg |-> msg]

Parse ==
    LET out == as_adjacency_list(matrix) IN
    /\ parsed' = TRUE
    /\ graph' = IF out.exc = NoExc THEN nx_Graph(out.val.val) ELSE graph
    /\ DrawerDid("parse", out.exc, out.msg)
    /\ UNCHANGED <<r, xy, title, files, shown, figs>>
    /\ UNCHANGED gvars

WithTitle(t) ==
    /\ title' = t
    /\ DrawerDid("with_title", NoExc, "")
    /\ UNCHANGED <<graph, r, xy, files, shown, figs, parsed>>
    /\ UNCHANGED gvars

\* __draw, plt.show(), then __plt_close (which closes the figure just drawn).
ToScreen ==
    LET d == draw(graph, xy, r, title) IN
    /\ d.exc # NoExc => figs + d.opened <= MaxFigs
    /\ figs' = IF d.exc = NoExc THEN figs ELSE figs + d.opened
    /\ shown' = IF d.exc = NoExc THEN d.picture ELSE shown
    /\ DrawerDid("to_screen", d.exc, d.msg)
    /\ UNCHANGED <<graph, r, xy, title, files, parsed>>
    /\ UNCHANGED gvars

\* __draw, plt.savefig(filename), then __plt_close.
ToFile(filename) ==
    LET d == draw(graph, xy, r, title) IN
    /\ d.exc # NoExc => figs + d.opened <= MaxFigs
    /\ figs' = IF d.exc = NoExc THEN figs ELSE figs + d.opened
    /\ files' = IF d.exc = NoExc
                THEN [f \in DOMAIN files \cup {filename} |->
                         IF f = filename THEN d.picture ELSE files[f]]
                ELSE files
    /\ DrawerDid("to_file", d.exc, d.msg)
    /\ UNCHANGED <<graph, r, xy, title, shown, parsed>>
    /\ UNCHANGED gvars

\* --- a GraphDrawer beside a Graph that holds nothing or a simple graph
InitDrawer ==
    /\ matrix \in {None} \cup {PyList(m) : m \in GraphInputs}
    /\ last = NoOp
    /\ seen = NoneSeen
    /\ arg = None
    /\ DrawerInit

NextDrawer ==
    \/ Parse
    \/ \E t \in Titles : WithTitle(t)
    \/ ToScreen
    \/ \E filename \in Filenames : ToFile(filename)

SpecDrawer == InitDrawer /\ [][NextDrawer]_vars

\* ------------------------------------------------------------ claims
ConstructorOps == {"from_neighbourhood_matrix", "from_adjacency_list", "from_incidence_matrix"}
\* A simple undirected graph: zero diagonal, entries in {0,1}, symmetric.
IsSimpleGraph(rows) ==
    /\ \A i \in DOMAIN rows : DOMAIN rows[i] = DOMAIN rows
    /\ \A i \in DOMAIN rows : rows[i][i] = 0
    /\ \A i \in DOMAIN rows : \A j \in DOMAIN rows : rows[i][j] \in {0, 1}
    /\ \A i \in DOMAIN rows : \A j \in DOMAIN rows : rows[i][j] = rows[j][i]
IsValidGraph(m) == m # None /\ IsSimpleGraph(m.val)
\* The edges of a stored matrix: the pairs i < j holding a 1.
EdgePairs(rows) == {pr \in Idx(len(rows)) \X Idx(len(rows)) : pr[1] < pr[2] /\ rows[pr[1]][pr[2]] = 1}

\* C1: after any sequence of construction attempts the stored matrix is None or a
\* simple graph: zero diagonal, every entry in {0,1}, symmetric.
C1_StoredMatrixIsSimpleGraph == matrix = None \/ IsSimpleGraph(matrix.val)

\* C2: whenever a construction attempt has just failed with BadGraphInput, the
\* Graph holds no matrix.
C2_BadGraphInputLeavesNone ==
    (last.op \in ConstructorOps /\ last.exc = "BadGraphInput") => matrix = None

\* C3: on a simple graph G, from_incidence_matrix of what as_incidence_matrix
\* returned succeeds and leaves a matrix equal to G's.
C3_IncidenceRoundTrip ==
    [][(/\ IsValidGraph(matrix)
        /\ Returned("as_incidence_matrix")
        /\ last'.op = "from_incidence_matrix")
       => (last'.exc = NoExc /\ matrix' = matrix)]_vars

C3_Witness ==
    /\ last.op = "from_incidence_matrix"
    /\ last.exc = NoExc
    /\ matrix = arg
    /\ len(matrix.val) = 3
    /\ Cardinality(EdgePairs(matrix.val)) = 2

\* The adjacency list of rows: keys 1..n, and under key i+1 the labels j+1 with
\* rows[i][j] = 1, ascending.
IsAdjacencyListOf(adj, rows) ==
    /\ DOMAIN adj = 1 .. len(rows)
    /\ \A i \in Idx(len(rows)) :
        /\ \A p \in 1 .. (Len(adj[i + 1]) - 1) : adj[i + 1][p] < adj[i + 1][p + 1]
        /\ {adj[i + 1][p] : p \in 1 .. Len(adj[i + 1])}
             = {j + 1 : j \in {x \in Idx(len(rows)) : rows[i][x] = 1}}

\* C4: on a simple graph G, as_adjacency_list returns keys 1..n with each node's
\* neighbour labels ascending, and from_adjacency_list of that result succeeds and
\* leaves a matrix equal to G's.
C4_AdjacencyRoundTrip ==
    [][/\ (IsValidGraph(matrix) /\ last'.op = "as_adjacency_list")
            => /\ last'.exc = NoExc
               /\ seen'["as_adjacency_list"].val.kind = "dict"
               /\ IsAdjacencyListOf(seen'["as_adjacency_list"].val.val, matrix.val)
       /\ (/\ IsValidGraph(matrix)
           /\ Returned("as_adjacency_list")
           /\ last'.op = "from_adjacency_list")
            => (last'.exc = NoExc /\ matrix' = matrix)]_vars

C4_Witness ==
    /\ last.op = "from_adjacency_list"
    /\ last.exc = NoExc
    /\ matrix = arg
    /\ len(matrix.val) = 3
    /\ Cardinality(EdgePairs(matrix.val)) = 3

\* C5: validation of an n x n integer matrix fails exactly when it has a nonzero
\* diagonal entry, an entry above 1 or an asymmetry; the reason is the first of
\* these, in that order; on failure the matrix is None, on success it is the input.
C5_ValidationReasons ==
    last.op = "from_neighbourhood_matrix" =>
        LET m == arg.val
            loops == \E i \in DOMAIN m : m[i][i] # 0
            multi == \E i \in DOMAIN m : \E j \in DOMAIN m : m[i][j] > 1
            asym == \E i \in DOMAIN m : \E j \in DOMAIN m : m[i][j] # m[j][i]
        IN  /\ (last.exc # NoExc) <=> (loops \/ multi \/ asym)
            /\ last.exc # NoExc => (last.exc = "BadGraphInput" /\ matrix = None)
            /\ last.exc = NoExc => matrix = arg
            /\ loops => last.msg = BadGraphInput("can't have loops")
            /\ (~loops /\ multi) => last.msg = BadGraphInput("can't have multiple edges")
            /\ (~loops /\ ~multi /\ asym) => last.msg = BadGraphInput("incorrect graph")

C5_Witness ==
    /\ last.op = "from_neighbourhood_matrix"
    /\ arg.val = [i \in 0 .. 1 |-> [j \in 0 .. 1 |-> IF i = 0 /\ j = 1 THEN 1 ELSE 0]]
    /\ last.msg = BadGraphInput("incorrect graph")
    /\ matrix = None

\* The rows at which column c of an incidence matrix holds a 1.
OnesOf(im, c) == {i \in DOMAIN im : im[i][c] = 1}
ColumnsOf(im) == IF len(im) = 0 THEN {} ELSE DOMAIN im[0]
BadColumns(im) == {c \in ColumnsOf(im) : Cardinality(OnesOf(im, c)) # 2}

\* C6: from_incidence_matrix fails with "invalid edge, N nodes" when some column
\* has not exactly two 1s, N being the number of 1s of the leftmost such column;
\* otherwise the matrix it validates counts, in cells [a][b] and [b][a], the
\* columns whose 1s are at rows a and b.
C6_IncidenceConstruction ==
    last.op = "from_incidence_matrix" =>
        LET im == arg.val
            bad == BadColumns(im)
            first == CHOOSE c \in bad : \A d \in bad : c <= d
            count == [a \in DOMAIN im |-> [b \in DOMAIN im |->
                         Cardinality({c \in ColumnsOf(im) : a # b /\ OnesOf(im, c) = {a, b}})]]
        IN  IF bad # {}
            THEN /\ last.exc = "BadGraphInput"
                 /\ last.msg = BadGraphInput("invalid edge, "
                                    \o str(Cardinality(OnesOf(im, first))) \o " nodes")
            ELSE IF \E a \in DOMAIN im : \E b \in DOMAIN im : count[a][b] > 1
            THEN /\ last.msg = BadGraphInput("can't have multiple edges")
                 /\ matrix = None
            ELSE /\ last.exc = NoExc
                 /\ matrix = PyList(count)

C6_Witness ==
    /\ last.op = "from_incidence_matrix"
    /\ len(arg.val) = 3
    /\ ColumnsOf(arg.val) = 0 .. 1
    /\ Cardinality(OnesOf(arg.val, 0)) = 2
    /\ last.msg = BadGraphInput("invalid edge, 3 nodes")

\* C7: on a simple graph with e edges as_incidence_matrix returns an n x e matrix
\* over {0,1} whose column k has its 1s at the ends of the k-th edge (i,j), i < j,
\* in row-major order of the upper triangle; e is half the number of 1s of M.
C7_IncidenceColumns ==
    (IsValidGraph(matrix) /\ seen["as_incidence_matrix"] # NotCalled) =>
        LET out == seen["as_incidence_matrix"]
            rows == matrix.val
            edges == EdgePairs(rows)
            e == Cardinality(edges)
            rank(pr) == Cardinality({q \in edges :
                            q[1] < pr[1] \/ (q[1] = pr[1] /\ q[2] < pr[2])})
        IN  /\ out.exc = NoExc
            /\ out.val.kind = "list"
            /\ 2 * e = Cardinality({pr \in (DOMAIN rows) \X (DOMAIN rows) : rows[pr[1]][pr[2]] = 1})
            /\ DOMAIN out.val.val = DOMAIN rows
            /\ \A i \in DOMAIN rows :
                /\ DOMAIN out.val.val[i] = Idx(e)
                /\ \A k \in Idx(e) : out.val.val[i][k] \in {0, 1}
            /\ \A pr \in edges : OnesOf(out.val.val, rank(pr)) = {pr[1], pr[2]}

C7_Witness ==
    /\ IsValidGraph(matrix)
    /\ seen["as_incidence_matrix"].exc = NoExc
    /\ len(matrix.val) = 3
    /\ matrix.val[0][1] = 0
    /\ Cardinality(EdgePairs(matrix.val)) = 2

\* Some node label or neighbour label of the mapping lies outside 1..n.
HasOutOfRangeLabel(adj_list) ==
    \E node \in DOMAIN adj_list :
        \/ node \notin 1 .. len(adj_list)
        \/ \E p \in 1 .. Len(adj_list[node]) : adj_list[node][p] \notin 1 .. len(adj_list)

\* C8: from_adjacency_list on a mapping with a label outside 1..n fails with an
\* error and leaves no populated matrix.
C8_OutOfRangeLabelFails ==
    (last.op = "from_adjacency_list" /\ HasOutOfRangeLabel(arg.val))
        => (last.exc # NoExc /\ matrix = None)

\* C9: while parse has never been called, every to_file and to_screen fails with
\* the usage error and changes nothing: no file, no display, no open figure, and
\* the drawer's graph, radius, centre and title as they were.
C9_DrawWithoutGraph ==
    [][(~parsed /\ dlast'.op \in {"to_file", "to_screen"})
       => /\ dlast'.exc = "TypeError"
          /\ dlast'.msg = "Graph to draw is None"
          /\ files' = files /\ shown' = shown /\ figs' = figs
          /\ graph' = graph /\ r' = r /\ xy' = xy /\ title' = title]_vars

C9_Witness ==
    /\ ~parsed
    /\ dlast.op = "to_file"
    /\ dlast.exc = "TypeError"
    /\ title = "G"
    /\ files = <<>>

\* C10: on a Graph holding a simple graph, validate and the three accessors always
\* succeed, leave the matrix as it was, and return what the same operation
\* returned before on this matrix.
C10_ReadsLeaveMatrix ==
    [][(IsValidGraph(matrix) /\ last'.op \in ReadOps)
       => /\ last'.exc = NoExc
          /\ matrix' = matrix
          /\ seen[last'.op] # NotCalled => seen'[last'.op] = seen[last'.op]]_vars

C10_Witness ==
    /\ IsValidGraph(matrix)
    /\ Cardinality(EdgePairs(matrix.val)) = 3
    /\ \A o \in ReadOps : seen[o].exc = NoExc
    /\ last.op = "validate"

====
